---- MODULE Spec2Model ----
(***************************************************************************)
(* Content-suggestion engine of social-AI: the three request handlers of   *)
(* content_suggestion_controller (getOrGenerateSuggestions,                *)
(* refreshSingleSuggestion, getOrGenerateUserSuggestions), the retry       *)
(* wrapper callWithBackoff, and the generation pipeline of                 *)
(* content_suggestion_service (generateContentFromProfile and              *)
(* generateImagesForSuggestions).                                          *)
(*                                                                         *)
(* Every await of a handler is an interleaving point: one action per       *)
(* awaited operation.  Requests reach the handlers authenticated: the user *)
(* document exists and, for the Instagram handler, is connected.           *)
(* External services (text completion, image generation, Instagram media   *)
(* API, image download) answer nondeterministically.                       *)
(***************************************************************************)
EXTENDS Integers, Sequences, FiniteSets, TLC

(* ---------------------------- bounds ----------------------------------- *)
MaxReqs == 3
MaxConcReqs == 2
MaxItems == 3
MaxTicks == 2
MaxCalls == 3
MaxBatch == 2
MaxFetches == 2
MaxListing == 2
MaxRetries == 4

(* ------------------------ program constants ---------------------------- *)
MinCount == 3
MaxAgeMs == 86400000
DefaultRetries == 3
DefaultDelayMs == 1000
RateLimitStatus == 429
TopLimit == 5
TopImages == 3
ImagesPerPrompt == 2

\* The clock advances in steps of 24h: ages of 0h, 24h (the boundary) and 48h.
TickMs == MaxAgeMs

Procs == {1, 2}
Users == {"u1"}
Handlers == {"getOrGenerateSuggestions", "getOrGenerateUserSuggestions", "refreshSingleSuggestion"}
NoId == <<0, 0>>

VARIABLES store, profiles, now, nreq, proc

\* The uploads directory and the record of the calls of downloadImageToUploads.
VARIABLES uploads, calls

\* One run of the post-parse validation of generateImagesForSuggestions.
VARIABLES validation

\* The InstagramPost collection and the running calls of
\* fetchAndStoreInstagramPosts.
VARIABLES posts, fetchers, nfetch

\* One build of the top-posts digest of the Instagram-informed prompt.
VARIABLES digest

\* One run of the parse of the text service's answer.
VARIABLES parser

\* One run of the image loop of generateImagesForSuggestions.
VARIABLES imgloop

\* One call of callWithBackoff(fn, retries, delayMs).
VARIABLES backoff

\* One invocation of generateContentFromProfile.
VARIABLES strategy

\* The request handlers' state, and the state they leave alone.
core == <<store, profiles, now, nreq, proc>>
files == <<uploads, calls>>
cache == <<posts, fetchers, nfetch>>
side == <<files, validation, cache, digest, parser, imgloop, backoff, strategy>>

vars == <<core, side>>

(* ------------------------- pure helpers -------------------------------- *)

\* Mongo model and source tag each handler writes.
ModelOf(h) == IF h = "getOrGenerateUserSuggestions" THEN "InstagramContentSuggestion" ELSE "ContentSuggestion"

SourceOf(h) == IF h = "getOrGenerateUserSuggestions" THEN "userProfile" ELSE "businessProfile"

\* Variant of BucketFilter whose business filter has no userId key.
BucketFilter_AnyUser(h, u, S) ==
    IF h = "getOrGenerateUserSuggestions"
    THEN {r \in S : r.model = "InstagramContentSuggestion" /\ r.userId = u /\ r.source = "userProfile"}
    ELSE {r \in S : r.model = "ContentSuggestion"}

\* The filter of find / deleteMany: the business handler filters on userId
\* only, the Instagram handler on userId and source.
BucketFilter(h, u, S) ==
    IF h = "getOrGenerateUserSuggestions"
    THEN {r \in S : r.model = "InstagramContentSuggestion" /\ r.userId = u /\ r.source = "userProfile"}
    ELSE {r \in S : r.model = "ContentSuggestion" /\ r.userId = u}

RECURSIVE SortDesc(_)
\* .sort({ createdAt: -1 }): newest first.
SortDesc(S) ==
    IF S = {} THEN <<>>
    ELSE LET r == CHOOSE x \in S : \A y \in S : y.createdAt <= x.createdAt
         IN <<r>> \o SortDesc(S \ {r})

Range(s) == {s[k] : k \in 1..Len(s)}

\* existing.some(s => Date.now() - createdAt > 24h)
IsOutdated(existing, t) == \E k \in 1..Len(existing) : t - existing[k].createdAt > MaxAgeMs

\* Variant of ShouldGenerateBusiness with an off-by-one count test.
ShouldGenerateBusiness_AtMost(existing, t) == Len(existing) <= MinCount \/ IsOutdated(existing, t)

\* getOrGenerateSuggestions: existing.length < 3 || isOutdated
ShouldGenerateBusiness(existing, t) == Len(existing) < MinCount \/ IsOutdated(existing, t)

\* getOrGenerateUserSuggestions: no latest, or latest older than 24h, or fewer than 3
ShouldGenerateUser(existing, t) ==
    IF Len(existing) = 0 THEN TRUE
    ELSE IF t - existing[1].createdAt > MaxAgeMs THEN TRUE
    ELSE Len(existing) < MinCount

ShouldGenerate(h, existing, t) ==
    IF h = "getOrGenerateUserSuggestions" THEN ShouldGenerateUser(existing, t)
    ELSE ShouldGenerateBusiness(existing, t)

\* Variant of BackoffRetries that also retries after the last attempt.
BackoffRetries_Inclusive(status, i, retries) == status = RateLimitStatus /\ i <= retries

\* Variant of BackoffRetries that retries on every error.
BackoffRetries_AnyError(status, i, retries) == i < retries

\* callWithBackoff's catch: error.response?.status === 429 && i < retries
BackoffRetries(status, i, retries) == status = RateLimitStatus /\ i < retries

\* Variant of NextDelay with a linear schedule.
NextDelay_Linear(d) == d + DefaultDelayMs

\* delayMs *= 2
NextDelay(d) == d * 2

\* HTTP status carried by an error (0: the error has no response field).
StatusOf(e) == IF e = "rateLimit" THEN RateLimitStatus ELSE 0

\* Variant of ErrorResponse that swallows the error and answers 200.
ErrorResponse_Swallowed(e) == [status |-> 200, body |-> <<>>]

\* next(err): the request fails, nothing is returned.
ErrorResponse(e) == [status |-> 500, body |-> <<>>]

\* A request slot.  existing, deletedCount (-1: nothing deleted), generated, idx
\* are locals of the handler; i, delayMs, error are locals of callWithBackoff;
\* waits lists the delays callWithBackoff has slept, ext the external services
\* the request has called so far.
Idle == [pc |-> "idle", handler |-> "getOrGenerateSuggestions", userId |-> "u1",
         suggestionId |-> NoId, reqNo |-> 0, existing |-> <<>>, deletedCount |-> -1,
         i |-> 0, delayMs |-> DefaultDelayMs, waits |-> <<>>, error |-> "none",
         generated |-> <<>>, idx |-> 1, ext |-> {},
         resp |-> [status |-> 0, body |-> <<>>], thrown |-> "none"]

\* The handler has answered: its locals are gone, what remains is the request's
\* identity, how many rows it evicted, the services it called, the
\* response and the error (if any) handed to next(err).
Done(q, resp, e) ==
    [Idle EXCEPT !.pc = "done", !.handler = q.handler, !.userId = q.userId, !.reqNo = q.reqNo,
                 !.deletedCount = q.deletedCount, !.ext = q.ext, !.resp = resp, !.thrown = e]

IsGet(h) == h \in {"getOrGenerateSuggestions", "getOrGenerateUserSuggestions"}

\* First awaited call of one invocation of generateContentFromProfile.
FnEntry(h) == IF h = "getOrGenerateUserSuggestions" THEN "fetch1" ELSE "text"

Set(p, r) == proc' = [proc EXCEPT ![p] = r]

(* ----------------------------- Init ------------------------------------ *)

\* Nothing downloaded yet.
FilesIdle == uploads = {} /\ calls = <<>>

\* No validation run.
ValidationIdle == validation = [parsed |-> <<>>, suggestions |-> <<>>, cursor |-> 0, phase |-> "idle"]

FetchIdle == [pc |-> "idle", userId |-> "u1", listing |-> <<>>, k |-> 0]

\* No cached post, no fetch running.
CacheIdle == posts = {} /\ nfetch = 0 /\ fetchers = [f \in Procs |-> FetchIdle]

\* No digest built.
DigestIdle == digest = [cached |-> {}, phase |-> "idle", top |-> <<>>, summary |-> <<>>, images |-> <<>>]

\* Nothing to parse.
ParserIdle == parser = [raw |-> <<>>, phase |-> "idle", cleanedRaw |-> <<>>, direct |-> FALSE,
                        result |-> [kind |-> "none", value |-> "none"]]


\* No image loop running.
ImagesIdle == imgloop = [items |-> <<>>, idx |-> 0, phase |-> "idle"]


\* No call of callWithBackoff under study.
BackoffIdle == backoff = [retries |-> 0, delayMs |-> 0, i |-> 0, calls |-> 0, waits |-> <<>>,
                          pc |-> "idle", error |-> "none", successes |-> 0]


\* No invocation of generateContentFromProfile under study.
StrategyIdle == strategy = [userId |-> "undefined", accessToken |-> "undefined", count |-> 0,
                            updateInstagramPosts |-> FALSE, pc |-> "idle", chosen |-> "none",
                            apiCalls |-> 0, cacheReads |-> 0, cacheWrites |-> 0]

SideIdle == FilesIdle /\ ValidationIdle /\ CacheIdle /\ DigestIdle /\ ParserIdle /\ ImagesIdle /\ BackoffIdle /\ StrategyIdle

\* No request has arrived and nothing is stored.
CoreIdle ==
    /\ store = {}
    /\ profiles = {}
    /\ now = 0
    /\ nreq = 0
    /\ proc = [p \in Procs |-> Idle]
Init ==
    /\ store = {}
    /\ profiles \in SUBSET Users
    /\ now = 0
    /\ nreq = 0
    /\ proc = [p \in Procs |-> Idle]
    /\ SideIdle

(* ---------------------------- actions ---------------------------------- *)

\* Time passes.  Only find, insertMany and findByIdAndUpdate read the clock,
\* so time that passes elsewhere is taken just before one of them.
Tick ==
    /\ now < MaxTicks * TickMs
    /\ \E p \in Procs : proc[p].pc \in {"find", "insert", "update"}
    /\ now' = now + TickMs
    /\ UNCHANGED <<store, profiles, nreq, proc, side>>

\* Requests take the slots in turn.
Slot(n) == (n % Cardinality(Procs)) + 1

\* A request enters one of the three handlers; at most `budget` requests.
Arrive(p, budget) ==
    /\ proc[p].pc \in {"idle", "done"}
    /\ p = Slot(nreq)
    /\ nreq < budget
    /\ \E h \in Handlers, u \in Users, sid \in {r.id : r \in store} \cup {NoId} :
         /\ (h # "refreshSingleSuggestion") => sid = NoId
         /\ Set(p, [Idle EXCEPT !.pc = IF IsGet(h) THEN "find" ELSE "profile",
                                !.handler = h, !.userId = u, !.suggestionId = sid,
                                !.reqNo = nreq + 1])
    /\ nreq' = nreq + 1
    /\ UNCHANGED <<store, profiles, now, side>>

\* Requests overlap freely.
Start(p) == Arrive(p, MaxConcReqs)

\* A request arrives only when no other is in flight.
StartSeq(p) ==
    /\ \A o \in Procs : proc[o].pc \in {"idle", "done"}
    /\ Arrive(p, MaxReqs)

\* find(...).sort({createdAt: -1}) and the staleness decision.
Find(p) ==
    LET q == proc[p]
        existing == SortDesc(BucketFilter(q.handler, q.userId, store))
    IN /\ q.pc = "find"
       /\ IF ShouldGenerate(q.handler, existing, now)
          THEN Set(p, [q EXCEPT !.existing = existing, !.pc = "delete"])
          ELSE Set(p, Done(q, [status |-> 200, body |-> existing], "none"))
       /\ UNCHANGED <<store, profiles, now, nreq, side>>

\* Variant of Delete that does not evict the bucket before generating.
Delete_NoEvict(p) ==
    LET q == proc[p]
    IN /\ q.pc = "delete"
       /\ Set(p, [q EXCEPT !.pc = "profile", !.existing = <<>>, !.deletedCount = 0])
       /\ UNCHANGED <<store, profiles, now, nreq, side>>

\* deleteMany(...) of the whole bucket; existing is not read again.
Delete(p) ==
    LET q == proc[p]
    IN /\ q.pc = "delete"
       /\ store' = store \ BucketFilter(q.handler, q.userId, store)
       /\ Set(p, [q EXCEPT !.pc = "profile", !.existing = <<>>,
                           !.deletedCount = Cardinality(BucketFilter(q.handler, q.userId, store))])
       /\ UNCHANGED <<profiles, now, nreq, side>>

\* BusinessProfile.findOne({userId}); 404 when there is none, otherwise
\* callWithBackoff starts with i = 0 and delayMs = 1000.
Profile(p) ==
    LET q == proc[p]
    IN /\ q.pc = "profile"
       /\ IF q.userId \notin profiles
          THEN Set(p, Done(q, [status |-> 404, body |-> <<>>], "none"))
          ELSE Set(p, [q EXCEPT !.pc = FnEntry(q.handler), !.i = 0, !.delayMs = DefaultDelayMs])
       /\ UNCHANGED <<store, profiles, now, nreq, side>>

\* An error e reaches the catch of callWithBackoff: sleep and retry on a
\* rate limit while i < retries; otherwise rethrow, which the handler's
\* catch hands to next(err).
Caught(q, e) ==
    IF BackoffRetries(StatusOf(e), q.i, DefaultRetries)
    THEN [q EXCEPT !.pc = "sleep", !.error = e]
    ELSE Done(q, ErrorResponse(e), e)

\* setTimeout(r, delayMs) fires; delayMs doubles; the loop invokes fn again.
Sleep(p) ==
    LET q == proc[p]
    IN /\ q.pc = "sleep"
       /\ Set(p, [q EXCEPT !.waits = Append(@, q.delayMs), !.delayMs = NextDelay(@),
                           !.i = @ + 1, !.pc = FnEntry(q.handler), !.error = "none"])
       /\ UNCHANGED <<store, profiles, now, nreq, side>>

\* fetchAndStoreInstagramPosts: called by generateContentFromProfile and
\* again by generateContentBasedOnProfileAndInstagram; rethrows API errors.
FetchPosts(p) ==
    LET q == proc[p]
        c == [q EXCEPT !.ext = @ \cup {"social"}]
    IN /\ q.pc \in {"fetch1", "fetch2"}
       /\ \E out \in {"ok", "rateLimit", "upstream"} :
            IF out = "ok"
            THEN Set(p, [c EXCEPT !.pc = IF q.pc = "fetch1" THEN "fetch2" ELSE "text"])
            ELSE Set(p, Caught(c, out))
       /\ UNCHANGED <<store, profiles, now, nreq, side>>

\* The array the text service answered with: n items, whatever count the
\* prompt asked for.
NewItems(q, n) == [k \in 1..n |-> [title |-> <<q.reqNo, k>>, imageUrls |-> <<>>]]

\* URLs returned by openai.images.generate({n: 2}).
ExtUrls == [k \in 1..ImagesPerPrompt |-> <<"ext", k>>]

\* https://aisocial.dev/api/uploads/<filename>, the file written for item k
\* of request r.
LocalUrl(r, k) == <<"local", r, k>>

\* Variant of NextWithImages that finds no item to download.
NextWithImages_None(gen, k) == 0

\* First index above k whose item carries image URLs; 0 if none.
NextWithImages(gen, k) ==
    IF \E j \in (k+1)..Len(gen) : Len(gen[j].imageUrls) > 0
    THEN CHOOSE j \in (k+1)..Len(gen) :
           /\ Len(gen[j].imageUrls) > 0
           /\ \A m \in (k+1)..(j-1) : Len(gen[m].imageUrls) = 0
    ELSE 0

\* Variant of Returned that persists without waiting for the downloads.
Returned_NoDownloads(q0) ==
    LET q == [q0 EXCEPT !.idx = 1]
    IN IF q.handler = "refreshSingleSuggestion"
       THEN IF Len(q.generated) = 0
            THEN Done(q, ErrorResponse("type"), "type")
            ELSE [q EXCEPT !.pc = "update"]
       ELSE [q EXCEPT !.pc = "insert"]

\* callWithBackoff returned `generated`: the handler goes on to the downloads.
Returned(q0) ==
    LET q == [q0 EXCEPT !.idx = 1]
    IN IF q.handler = "refreshSingleSuggestion"
       THEN IF Len(q.generated) = 0
            THEN Done(q, ErrorResponse("type"), "type")
            ELSE IF Len(q.generated[1].imageUrls) > 0
                 THEN [q EXCEPT !.pc = "download", !.idx = 1]
                 ELSE [q EXCEPT !.pc = "update"]
       ELSE IF NextWithImages(q.generated, 0) = 0
            THEN [q EXCEPT !.pc = "insert"]
            ELSE [q EXCEPT !.pc = "download", !.idx = NextWithImages(q.generated, 0)]

\* openai.chat.completions.create and the parse of its answer.  Once the text
\* call has succeeded nothing in fn throws (generateImagesForSuggestions
\* catches its errors), so i, delayMs and waits of callWithBackoff are never
\* read again and are dropped here.
Text(p) ==
    LET q == proc[p]
        c == [q EXCEPT !.ext = @ \cup {"text"}]
    IN /\ q.pc = "text"
       /\ \/ \E n \in 0..MaxItems :
               LET g == [c EXCEPT !.generated = NewItems(q, n), !.idx = 1,
                                  !.i = 0, !.delayMs = DefaultDelayMs, !.waits = <<>>]
               IN Set(p, IF n = 0 THEN Returned(g) ELSE [g EXCEPT !.pc = "image"])
          \/ \E e \in {"rateLimit", "upstream", "malformed"} : Set(p, Caught(c, e))
       /\ UNCHANGED <<store, profiles, now, nreq, side>>

\* What the catch of generateImagesForSuggestions leaves in the item.
ImageFallback(item) == [item EXCEPT !.imageUrls = <<>>]

\* Variant of ImageLoopNext that leaves the loop at the first failed image.
ImageLoopNext_Break(k, n, out) == IF out = "fail" THEN 0 ELSE IF k < n THEN k + 1 ELSE 0

\* After item k of n: the for loop goes on to the next item, whatever
\* happened to this one.
ImageLoopNext(k, n, out) == IF k < n THEN k + 1 ELSE 0

\* One turn of the loop of generateImagesForSuggestions: the image call
\* succeeds, fails, or is skipped because the prompt is too short.
Image(p) ==
    LET q == proc[p]
        k == q.idx
    IN /\ q.pc = "image"
       /\ \E out \in {"ok", "fail", "skip"} :
            LET item == IF out = "ok" THEN [q.generated[k] EXCEPT !.imageUrls = ExtUrls]
                        ELSE ImageFallback(q.generated[k])
                g == [q EXCEPT !.generated[k] = item,
                               !.ext = IF out = "skip" THEN @ ELSE @ \cup {"image"}]
                j == ImageLoopNext(k, Len(q.generated), out)
            IN Set(p, IF j = 0 THEN Returned(g) ELSE [g EXCEPT !.idx = j])
       /\ UNCHANGED <<store, profiles, now, nreq, side>>

\* Variant of Download in which a failed download rejects the whole request.
Download_Abort(p) ==
    LET q == proc[p]
        k == q.idx
        next(g) == IF q.handler = "refreshSingleSuggestion" THEN [g EXCEPT !.pc = "update"]
                   ELSE IF NextWithImages(g.generated, k) = 0 THEN [g EXCEPT !.pc = "insert"]
                   ELSE [g EXCEPT !.idx = NextWithImages(g.generated, k)]
    IN /\ q.pc = "download"
       /\ \/ Set(p, next([q EXCEPT !.generated[k].imageUrls = <<LocalUrl(q.reqNo, k)>>,
                                   !.ext = @ \cup {"download"}]))
          \/ Set(p, Done([q EXCEPT !.ext = @ \cup {"download"}], ErrorResponse("download"), "download"))
       /\ UNCHANGED <<store, profiles, now, nreq, side>>

\* downloadImageToUploads(item.imageUrls[0]) and the rewrite of imageUrls; a
\* failed download leaves imageUrls = [].
Download(p) ==
    LET q == proc[p]
        k == q.idx
        next(g) == IF q.handler = "refreshSingleSuggestion" THEN [g EXCEPT !.pc = "update"]
                   ELSE IF NextWithImages(g.generated, k) = 0 THEN [g EXCEPT !.pc = "insert"]
                   ELSE [g EXCEPT !.idx = NextWithImages(g.generated, k)]
    IN /\ q.pc = "download"
       /\ \E out \in {"ok", "fail"} :
            Set(p, next([q EXCEPT !.generated[k].imageUrls =
                                      IF out = "ok" THEN <<LocalUrl(q.reqNo, k)>> ELSE <<>>,
                                  !.ext = @ \cup {"download"}]))
       /\ UNCHANGED <<store, profiles, now, nreq, side>>

\* Variant of InsertMany that replaces the rows of the documents' bucket.
InsertMany_Replace(S, docs) ==
    {r \in S : \A k \in 1..Len(docs) :
                  r.model # docs[k].model \/ r.userId # docs[k].userId \/ r.source # docs[k].source}
        \cup Range(docs)

\* insertMany adds the documents to the collection.
InsertMany(S, docs) == S \cup Range(docs)

\* Variant of NewDocs that loses the last generated item.
NewDocs_DropLast(q, t) ==
    [k \in 1..(Len(q.generated) - 1) |->
        [id |-> <<q.reqNo, k>>, model |-> ModelOf(q.handler), userId |-> q.userId,
         source |-> SourceOf(q.handler), createdAt |-> t, refreshed |-> FALSE,
         title |-> q.generated[k].title, imageUrls |-> q.generated[k].imageUrls]]

\* The documents handed to insertMany.
NewDocs(q, t) ==
    [k \in 1..Len(q.generated) |->
        [id |-> <<q.reqNo, k>>, model |-> ModelOf(q.handler), userId |-> q.userId,
         source |-> SourceOf(q.handler), createdAt |-> t, refreshed |-> FALSE,
         title |-> q.generated[k].title, imageUrls |-> q.generated[k].imageUrls]]

\* insertMany(...) and res.status(200).json(saved).
Insert(p) ==
    LET q == proc[p]
        saved == NewDocs(q, now)
    IN /\ q.pc = "insert"
       /\ store' = InsertMany(store, saved)
       /\ Set(p, Done(q, [status |-> 200, body |-> saved], "none"))
       /\ UNCHANGED <<profiles, now, nreq, side>>

\* Variant of Refreshed that replaces the document instead of updating it:
\* the bucket key is lost.
Refreshed_Replaced(r, item, t) ==
    [r EXCEPT !.title = item.title, !.imageUrls = item.imageUrls,
              !.refreshed = TRUE, !.createdAt = t, !.source = "none"]

\* The document findByIdAndUpdate leaves in place of row r.
Refreshed(r, item, t) ==
    [r EXCEPT !.title = item.title, !.imageUrls = item.imageUrls,
              !.refreshed = TRUE, !.createdAt = t]

\* ContentSuggestion.findByIdAndUpdate(suggestionId, ..., {new: true}).
Update(p) ==
    LET q == proc[p]
        hit == {r \in store : r.model = "ContentSuggestion" /\ r.id = q.suggestionId}
    IN /\ q.pc = "update"
       /\ IF hit = {}
          THEN /\ Set(p, Done(q, [status |-> 404, body |-> <<>>], "none"))
               /\ UNCHANGED store
          ELSE LET r == CHOOSE x \in hit : TRUE
                   u == Refreshed(r, q.generated[1], now)
               IN /\ store' = (store \ {r}) \cup {u}
                  /\ Set(p, Done(q, [status |-> 200, body |-> <<u>>], "none"))
       /\ UNCHANGED <<profiles, now, nreq, side>>

Work(p) ==
    \/ Find(p)
    \/ Delete(p)
    \/ Profile(p)
    \/ Sleep(p)
    \/ FetchPosts(p)
    \/ Text(p)
    \/ Image(p)
    \/ Download(p)
    \/ Insert(p)
    \/ Update(p)

Next == Tick \/ \E p \in Procs : Start(p) \/ Work(p)

Spec == Init /\ [][Next]_vars

NextSeq == Tick \/ \E p \in Procs : StartSeq(p) \/ Work(p)

SpecSeq == Init /\ [][NextSeq]_vars

(* ------------------------- claim vocabulary ---------------------------- *)

\* The bucket (userId, source) of a store.
BucketOf(S, u, src) == {r \in S : r.userId = u /\ r.source = src}

\* The bucket a request works on.
BucketIn(S, q) == BucketOf(S, q.userId, SourceOf(q.handler))

IdsOf(S) == {r.id : r \in S}

FindStep(p) == proc[p].pc = "find" /\ proc'[p].pc # "find"

DeleteStep(p) == proc[p].pc = "delete" /\ proc'[p].pc # "delete"

InsertStep(p) == proc[p].pc = "insert" /\ proc'[p].pc = "done"

\* The step answers from the cache: 200 with exactly the rows B, no external
\* call, store untouched.
ServedCached(p, B) ==
    /\ proc'[p].pc = "done"
    /\ proc'[p].resp.status = 200
    /\ Range(proc'[p].resp.body) = B
    /\ Len(proc'[p].resp.body) = Cardinality(B)
    /\ proc'[p].ext = {}
    /\ proc'[p].deletedCount = -1
    /\ store' = store

TextErrors == {"rateLimit", "upstream", "malformed"}

\* The pcs at which an invocation of fn may throw.
CallPcs == {"fetch1", "fetch2", "text"}

(* ------------------------------- C1 ------------------------------------ *)

\* C1 (as claimed): a getOrGenerate that reads a bucket of at least 3 rows
\* whose newest row is at most 24h old answers with exactly the stored rows,
\* changes nothing and calls no external service, whatever the ages of the
\* other rows.  getOrGenerateSuggestions breaks it: it regenerates as soon as
\* any row is older than 24h.
C1_FreshServed ==
    [][\A p \in Procs :
         LET B == BucketIn(store, proc[p])
         IN (/\ FindStep(p)
             /\ Cardinality(B) >= MinCount
             /\ \E r \in B : now - r.createdAt <= MaxAgeMs)
            => ServedCached(p, B)]_vars

(* ------------------------------- C2 ------------------------------------ *)

\* C2 (as claimed): a regeneration that completes leaves the bucket holding
\* exactly 3 new rows, which are the ones returned.
C2_ExactlyThree ==
    [][\A p \in Procs :
         InsertStep(p) =>
            /\ BucketIn(store', proc[p]) = Range(proc'[p].resp.body)
            /\ Cardinality(BucketIn(store', proc[p])) = MinCount]_vars

\* C2 (amended): the delete empties the bucket; the insert adds one new row
\* per item of the text service's array (as many as it contained) and returns
\* exactly those rows; when nothing was inserted since the delete, they are the
\* whole bucket.
C2_AsManyAsGenerated ==
    [][\A p \in Procs :
         LET q == proc[p]
             new == Range(proc'[p].resp.body)
         IN /\ DeleteStep(p) =>
                 /\ BucketIn(store', q) = {}
                 /\ store' \subseteq store
            /\ InsertStep(p) =>
                 /\ q.deletedCount >= 0
                 /\ proc'[p].resp.status = 200
                 /\ Len(proc'[p].resp.body) = Len(q.generated)
                 /\ Cardinality(new) = Len(q.generated)
                 /\ \A k \in 1..Len(q.generated) : proc'[p].resp.body[k].title = q.generated[k].title
                 /\ new \cap store = {}
                 /\ store' = store \cup new
                 /\ new \subseteq BucketIn(store', q)
                 /\ (BucketIn(store, q) = {} => BucketIn(store', q) = new)]_vars

\* A regeneration completed with 2 rows: the bucket holds them and no others.
C2_Witness ==
    \E p \in Procs :
        /\ proc[p].pc = "done"
        /\ IsGet(proc[p].handler)
        /\ proc[p].deletedCount >= 0
        /\ proc[p].resp.status = 200
        /\ Len(proc[p].resp.body) = 2
        /\ BucketIn(store, proc[p]) = Range(proc[p].resp.body)

(* ------------------------------- C3 ------------------------------------ *)

\* C3: the eviction empties the bucket before generation starts; a text
\* failure after it inserts nothing; and rows with new ids only ever appear by
\* the insert of a getOrGenerate, so the bucket stays empty until one succeeds.
C3_EmptyAfterFailure ==
    [][/\ \A p \in Procs :
            LET q == proc[p]
            IN /\ DeleteStep(p) =>
                    /\ BucketIn(store', q) = {}
                    /\ proc'[p].deletedCount = Cardinality(BucketIn(store, q))
               /\ (/\ IsGet(q.handler)
                   /\ q.pc = "text"
                   /\ proc'[p].pc = "done"
                   /\ proc'[p].thrown # "none")
                  => /\ q.deletedCount >= 0
                     /\ store' = store
                     /\ \A r \in store' : r.title[1] # q.reqNo
                     /\ (\A o \in Procs \ {p} : proc[o].reqNo = 0) => BucketIn(store', q) = {}
       /\ ~(IdsOf(store') \subseteq IdsOf(store)) =>
            \E o \in Procs : InsertStep(o) /\ IsGet(proc[o].handler)]_vars

\* A getOrGenerate evicted a non-empty bucket, then failed in the text call:
\* the bucket is empty.
C3_Witness ==
    \E p \in Procs :
        /\ proc[p].pc = "done"
        /\ IsGet(proc[p].handler)
        /\ proc[p].thrown \in TextErrors
        /\ "text" \in proc[p].ext
        /\ proc[p].deletedCount > 0
        /\ BucketIn(store, proc[p]) = {}

(* ------------------------------- C4 ------------------------------------ *)

\* C4: when the text call of a getOrGenerate fails for good, the request
\* fails: the error goes to next(err), nothing is returned, the store is not
\* written, and no row generated by that request is ever stored.
C4_TextFailureFatal ==
    [][\A p \in Procs :
         LET q == proc[p]
         IN /\ (/\ IsGet(q.handler)
                /\ q.pc = "text"
                /\ proc'[p].pc = "done"
                /\ proc'[p].thrown # "none")
               => /\ proc'[p].thrown \in TextErrors
                  /\ proc'[p].resp.status = 500
                  /\ proc'[p].resp.body = <<>>
                  /\ store' = store
            /\ (proc'[p].pc = "done" /\ proc'[p].thrown # "none")
               => \A r \in store' : r.title[1] # proc'[p].reqNo]_vars

\* A getOrGenerate failed on an unparseable text response.
C4_Witness ==
    \E p \in Procs :
        /\ proc[p].pc = "done"
        /\ IsGet(proc[p].handler)
        /\ proc[p].thrown = "malformed"
        /\ proc[p].resp.status = 500
        /\ proc[p].resp.body = <<>>

(* ------------------------------- C5 ------------------------------------ *)

\* Two completed regenerations of the same bucket, held in slots p and o.
BothRegenerated(pr, p, o) ==
    /\ p # o
    /\ pr[p].pc = "done" /\ pr[o].pc = "done"
    /\ IsGet(pr[p].handler)
    /\ pr[p].handler = pr[o].handler
    /\ pr[p].userId = pr[o].userId
    /\ pr[p].resp.status = 200 /\ pr[o].resp.status = 200
    /\ pr[p].deletedCount >= 0 /\ pr[o].deletedCount >= 0

BodyIds(q) == IdsOf(Range(q.resp.body))

\* C5 (as claimed): after two regenerations of one bucket the bucket holds the
\* batch of exactly one of them (last write wins), never the union.
C5_LastWriteWins ==
    \A p, o \in Procs :
        BothRegenerated(proc, p, o) =>
            IdsOf(BucketIn(store, proc[p])) \in {BodyIds(proc[p]), BodyIds(proc[o])}

\* C5 (amended): both requests delete and both call the text service; each
\* insert only adds its batch to what the bucket holds at that moment, so the
\* bucket ends with the batch of one of them or with the union of both.
C5_BatchOrUnion ==
    [][/\ \A p \in Procs :
            InsertStep(p) =>
                /\ BucketIn(store', proc[p]) =
                       BucketIn(store, proc[p]) \cup Range(proc'[p].resp.body)
                /\ \A r \in store' \ BucketIn(store', proc[p]) : r \in store
       /\ \A p, o \in Procs :
            BothRegenerated(proc', p, o) =>
                /\ "text" \in proc'[p].ext /\ "text" \in proc'[o].ext
                /\ IdsOf(BucketIn(store', proc'[p])) \in
                       {BodyIds(proc'[p]), BodyIds(proc'[o]),
                        BodyIds(proc'[p]) \cup BodyIds(proc'[o])}]_vars

\* Both requests found the same 2 stale rows, both evicted and generated, and
\* the bucket holds the union of the two batches.
C5_Witness ==
    \E p, o \in Procs :
        /\ BothRegenerated(proc, p, o)
        /\ BodyIds(proc[p]) # {} /\ BodyIds(proc[o]) # {}
        /\ IdsOf(BucketIn(store, proc[p])) = BodyIds(proc[p]) \cup BodyIds(proc[o])

(* ------------------------------- C6 ------------------------------------ *)

\* C6 (as claimed): once refreshSingleSuggestion has re-stamped one row of a
\* bucket whose other rows are all older than 24h, the next getOrGenerate
\* within 24h sees the bucket as fresh and answers from the cache.
C6_RefreshMakesFresh ==
    [][\A p \in Procs :
         LET B == BucketIn(store, proc[p])
         IN (/\ FindStep(p)
             /\ Cardinality(B) >= MinCount
             /\ \E r \in B :
                  /\ r.refreshed
                  /\ now - r.createdAt <= MaxAgeMs
                  /\ \A o \in B \ {r} : now - o.createdAt > MaxAgeMs)
            => /\ proc'[p].pc = "done"
               /\ proc'[p].resp.status = 200
               /\ IdsOf(Range(proc'[p].resp.body)) = IdsOf(B)
               /\ store' = store]_vars

(* ------------------------------- C7 ------------------------------------ *)

\* Slot o holds the completed regeneration that ran just before the request
\* of slot p, on the same bucket.
PrevRegeneration(p, o) ==
    /\ o # p
    /\ proc[o].pc = "done"
    /\ proc[o].reqNo + 1 = proc[p].reqNo
    /\ IsGet(proc[o].handler)
    /\ proc[o].handler = proc[p].handler
    /\ proc[o].userId = proc[p].userId
    /\ proc[o].deletedCount >= 0

InsertedWithinDay(o) ==
    \A k \in 1..Len(proc[o].resp.body) : now - proc[o].resp.body[k].createdAt < MaxAgeMs

\* C7 (as claimed): a regeneration that returns successfully makes the bucket
\* FRESH (the next read within 24h is served from the cache); one that fails
\* leaves it not FRESH (the next read regenerates).
C7_SuccessMakesFresh ==
    [][\A p, o \in Procs :
         (FindStep(p) /\ PrevRegeneration(p, o)) =>
            /\ (proc[o].resp.status = 200 /\ InsertedWithinDay(o))
                 => ServedCached(p, BucketIn(store, proc[p]))
            /\ proc[o].resp.status # 200 => proc'[p].pc = "delete"]_vars

\* C7 (amended): a regeneration that returns successfully with at least 3
\* suggestions makes the bucket FRESH; one that fails, or that returns fewer
\* than 3, leaves it not FRESH.
C7_ThreeMakeFresh ==
    [][\A p, o \in Procs :
         (FindStep(p) /\ PrevRegeneration(p, o)) =>
            /\ (/\ proc[o].resp.status = 200
                /\ Len(proc[o].resp.body) >= MinCount
                /\ InsertedWithinDay(o))
                 => ServedCached(p, Range(proc[o].resp.body))
            /\ (proc[o].resp.status = 200 /\ Len(proc[o].resp.body) < MinCount)
                 => proc'[p].pc = "delete"
            /\ proc[o].resp.status # 200
                 => proc'[p].pc = "delete" /\ BucketIn(store, proc[p]) = {}]_vars

\* A regeneration returned 3 rows and the next request on the bucket was
\* answered with them from the cache.
C7_Witness ==
    \E p, o \in Procs :
        /\ PrevRegeneration(p, o)
        /\ proc[o].resp.status = 200
        /\ Len(proc[o].resp.body) = MinCount
        /\ proc[p].pc = "done"
        /\ proc[p].deletedCount = -1
        /\ proc[p].ext = {}
        /\ proc[p].resp = proc[o].resp

(* ------------------------------- C8 ------------------------------------ *)

BackoffDelays == <<1000, 2000, 4000>>

\* C8: under persistent 429s callWithBackoff invokes the operation 4 times
\* (attempts i = 0..3), waits 1000, 2000 and 4000 ms between them, and then
\* fails with the rate-limit error.
C8_BackoffSchedule ==
    [][\A p \in Procs :
         LET q == proc[p]
         IN /\ q.pc \in CallPcs \cup {"sleep"} =>
                 /\ q.i <= DefaultRetries
                 /\ q.waits = SubSeq(BackoffDelays, 1, q.i)
            /\ q.pc = "sleep" => q.i < DefaultRetries /\ q.delayMs = BackoffDelays[q.i + 1]
            /\ (q.pc = "sleep" /\ proc'[p].pc # "sleep") =>
                 /\ proc'[p].pc = FnEntry(q.handler)
                 /\ proc'[p].i = q.i + 1
                 /\ proc'[p].waits = Append(q.waits, BackoffDelays[q.i + 1])
            /\ (q.pc \in CallPcs /\ proc'[p].pc = "sleep") => q.i < DefaultRetries
            /\ (q.pc \in CallPcs /\ proc'[p].pc = "done" /\ proc'[p].thrown = "rateLimit") =>
                 /\ q.i = DefaultRetries
                 /\ q.waits = BackoffDelays
                 /\ StatusOf(proc'[p].thrown) = RateLimitStatus
                 /\ proc'[p].resp.status = 500]_vars

\* The fourth invocation answered 429 too and the request failed with the
\* rate-limit error.
C8_Witness ==
    \E p \in Procs :
        /\ proc[p].pc = "done"
        /\ proc[p].thrown = "rateLimit"
        /\ "text" \in proc[p].ext

(* ------------------------------- C9 ------------------------------------ *)

\* C9: a failure that is not a 429 is never retried and never waited on: the
\* wrapper sleeps only on a rate-limit error, and a non-429 error ends the
\* request on the attempt it occurs, with no further delay.
C9_NoRetryOnOtherErrors ==
    [][\A p \in Procs :
         LET q == proc[p]
         IN /\ q.pc = "sleep" => q.error = "rateLimit"
            /\ proc'[p].pc = "sleep" => proc'[p].error = "rateLimit"
            /\ (q.pc \in CallPcs /\ proc'[p].thrown \in {"upstream", "malformed"}) =>
                 /\ proc'[p].pc = "done"
                 /\ proc'[p].resp.status = 500
                 /\ store' = store
            /\ (q.pc \in CallPcs /\ proc'[p].pc \in CallPcs \cup {"sleep"}) =>
                 proc'[p].waits = q.waits]_vars

\* A request failed on an upstream error other than 429.
C9_Witness ==
    \E p \in Procs :
        /\ proc[p].pc = "done"
        /\ proc[p].thrown = "upstream"
        /\ proc[p].ext # {}

(* ------------------------------- C10 ----------------------------------- *)

\* C10: an image-generation failure never fails the request: the item gets
\* imageUrls = [], the items after it are still processed, and every generated
\* item is persisted and returned.
C10_ImageFailureTolerated ==
    [][\A p \in Procs :
         LET q == proc[p]
             r == proc'[p]
         IN /\ (q.pc = "image" /\ r # q) =>
                 /\ r.thrown = "none"
                 /\ r.pc \in {"image", "download", "insert", "update"}
                 /\ Len(r.generated) = Len(q.generated)
                 /\ \A k \in 1..Len(q.generated) :
                      k # q.idx => r.generated[k] = q.generated[k]
                 /\ r.generated[q.idx].title = q.generated[q.idx].title
                 /\ r.generated[q.idx].imageUrls \in {<<>>, ExtUrls}
                 /\ q.idx < Len(q.generated) => r.pc = "image" /\ r.idx = q.idx + 1
            /\ (InsertStep(p) /\ IsGet(q.handler)) =>
                 /\ r.resp.status = 200
                 /\ Len(r.resp.body) = Len(q.generated)
                 /\ \A k \in 1..Len(q.generated) :
                      /\ r.resp.body[k].title = q.generated[k].title
                      /\ r.resp.body[k].imageUrls = q.generated[k].imageUrls
                      /\ r.resp.body[k] \in store']_vars

\* An image call failed and no image was ever downloaded, yet the request
\* answered 200 with all 3 items, stored with imageUrls = [].
C10_Witness ==
    \E p \in Procs :
        /\ proc[p].pc = "done"
        /\ IsGet(proc[p].handler)
        /\ proc[p].resp.status = 200
        /\ "image" \in proc[p].ext
        /\ "download" \notin proc[p].ext
        /\ Len(proc[p].resp.body) = 3
        /\ \A k \in 1..3 : proc[p].resp.body[k].imageUrls = <<>>
        /\ Range(proc[p].resp.body) \subseteq store

(* ------------------------------- C11 ----------------------------------- *)

\* C11: a download (failed or not) never ends the request and touches only
\* the item it is about: that item keeps its title and gets imageUrls = [] on
\* failure or the one local URL on success, every other item of the batch is
\* left as it was, and the write that follows persists every item as it then
\* is.
C11_DownloadFailureTolerated ==
    [][\A p \in Procs :
         LET q == proc[p]
             r == proc'[p]
         IN /\ (q.pc = "download" /\ r # q) =>
                 /\ r.thrown = "none"
                 /\ r.pc \in {"download", "insert", "update"}
                 /\ Len(r.generated) = Len(q.generated)
                 /\ \A k \in 1..Len(q.generated) :
                      k # q.idx => r.generated[k] = q.generated[k]
                 /\ r.generated[q.idx].title = q.generated[q.idx].title
                 /\ r.generated[q.idx].imageUrls \in {<<>>, <<LocalUrl(q.reqNo, q.idx)>>}
                 /\ "download" \in r.ext
                 /\ store' = store
            /\ InsertStep(p) =>
                 /\ r.resp.status = 200
                 /\ Len(r.resp.body) = Len(q.generated)
                 /\ \A k \in 1..Len(q.generated) :
                      /\ r.resp.body[k] \in store'
                      /\ r.resp.body[k].title = q.generated[k].title
                      /\ r.resp.body[k].imageUrls = q.generated[k].imageUrls
            /\ (q.pc = "update" /\ r.pc = "done" /\ r.resp.status = 200) =>
                 \E row \in store' :
                      /\ row.id = q.suggestionId
                      /\ row.title = q.generated[1].title
                      /\ row.imageUrls = q.generated[1].imageUrls]_vars

\* The only downloads of a batch of 2 failed (a successful one would have left
\* a local URL), and the request answered 200 with both items stored.
C11_Witness ==
    \E p \in Procs :
        /\ proc[p].pc = "done"
        /\ IsGet(proc[p].handler)
        /\ proc[p].resp.status = 200
        /\ "download" \in proc[p].ext
        /\ Len(proc[p].resp.body) = 2
        /\ \A k \in 1..2 : proc[p].resp.body[k].imageUrls = <<>>
        /\ Range(proc[p].resp.body) \subseteq store

(* ====================== downloadImageToUploads ========================= *)

\* Remote image URLs (host, file name of the path) and the values
\* Math.random().toString(36).substring(2, 15) may take.
Urls == {<<"cdn", "a.png">>, <<"cdn", "b.png">>}
RandomStrings == {"r1", "r2"}

\* A file name is a pair (prefix, rest).  `img-${randomString}.png`
ImgName(r) == <<"img-", r>>

\* path.basename(new URL(imageUrl).pathname)
Basename(url) == <<"", url[2]>>

\* Variant of FileExists that never finds the file.
FileExists_Never(name, dir) == FALSE

\* fs.existsSync(filepath)
FileExists(name, dir) == name \in dir

\* Everything the handlers' state and the other components keep.
notFiles == <<core, validation, cache, digest, parser, imgloop, backoff, strategy>>

\* The outcome of axios.get followed by the piped write: the file is written,
\* the request fails (nothing written), or the writer reports an error (the
\* file createWriteStream opened may or may not be left behind).
Fetched(fn, url, name) ==
    \/ /\ uploads' = uploads \cup {name}
       /\ calls' = Append(calls, [fn |-> fn, url |-> url, name |-> name, fetch |-> "done", ok |-> TRUE])
    \/ /\ uploads' = uploads
       /\ calls' = Append(calls, [fn |-> fn, url |-> url, name |-> name, fetch |-> "failed", ok |-> FALSE])
    \/ /\ uploads' \in {uploads, uploads \cup {name}}
       /\ calls' = Append(calls, [fn |-> fn, url |-> url, name |-> name, fetch |-> "done", ok |-> FALSE])

\* downloadImageToUploads of the suggestion controller: a random file name, no
\* fetch when a file of that name exists.
DownloadImageToUploads(url, r) ==
    LET name == ImgName(r)
    IN /\ Len(calls) < MaxCalls
       /\ IF FileExists(name, uploads)
          THEN /\ calls' = Append(calls, [fn |-> "random", url |-> url, name |-> name,
                                          fetch |-> "none", ok |-> TRUE])
               /\ UNCHANGED uploads
          ELSE Fetched("random", url, name)
       /\ UNCHANGED notFiles

\* downloadImageToUploads named after the URL: always fetches and (over)writes.
DownloadByUrlName(url) ==
    /\ Len(calls) < MaxCalls
    /\ Fetched("urlName", url, Basename(url))
    /\ UNCHANGED notFiles

InitFiles == CoreIdle /\ SideIdle

NextFiles ==
    \/ \E url \in Urls, r \in RandomStrings : DownloadImageToUploads(url, r)
    \/ \E url \in Urls : DownloadByUrlName(url)

SpecFiles == InitFiles /\ [][NextFiles]_vars

(* ------------------------------- C12 ----------------------------------- *)

LastCall == calls'[Len(calls')]

C13_StoredImagesLocal ==
    \A r \in store :
        /\ Len(r.imageUrls) <= ImagesPerPrompt
        /\ \A k \in 1..Len(r.imageUrls) : r.imageUrls[k] \notin Range(ExtUrls)
        /\ r.imageUrls \in {<<>>, <<LocalUrl(r.title[1], r.title[2])>>}

\* A stored suggestion with a downloaded image, also after a refresh.
C13_Witness ==
    /\ \E r \in store : r.imageUrls # <<>> /\ r.refreshed
    /\ \E r \in store : r.imageUrls # <<>> /\ ~r.refreshed

(* ================= post-parse validation of contentType ================ *)

\* const validTypes = ["Post", "Story", "Reel", "Newsletter"]
ValidTypes == {"Post", "Story", "Reel", "Newsletter"}

\* What the elements of the parsed array may be (the parser only checks
\* Array.isArray): an object whose contentType is in the vocabulary, is some
\* other value ("Carousel", or the plural "Stories" of the profile's own
\* vocabulary), or is missing; or a value that is no object (null).
ParsedItems ==
    [kind : {"object"}, contentType : ValidTypes \cup {"Carousel", "Stories", "missing"}]
        \cup {[kind |-> "null", contentType |-> "missing"]}

\* if (!validTypes.includes(suggestion.contentType)) suggestion.contentType = "Post"
CoerceType(t) == IF t \in ValidTypes THEN t ELSE "Post"

notValidation == <<core, files, cache, digest, parser, imgloop, backoff, strategy>>

\* One iteration of the for loop, up to the image prompt: reading contentType
\* of a value that is no object throws a TypeError, outside the loop's try.
ValidateItem ==
    LET v == validation
        k == v.cursor
    IN /\ v.phase = "loop"
       /\ k <= Len(v.suggestions)
       /\ IF v.suggestions[k].kind # "object"
          THEN validation' = [v EXCEPT !.phase = "threw"]
          ELSE validation' = [v EXCEPT !.suggestions[k].contentType = CoerceType(@),
                                       !.cursor = k + 1]
       /\ UNCHANGED notValidation

\* return suggestions, and insertMany(generated.map(item => ({...item, ...}))).
PersistValidated ==
    /\ validation.phase = "loop"
    /\ validation.cursor > Len(validation.suggestions)
    /\ validation' = [validation EXCEPT !.phase = "saved"]
    /\ UNCHANGED notValidation

InitValidation ==
    /\ CoreIdle
    /\ FilesIdle
    /\ CacheIdle
    /\ DigestIdle
    /\ ParserIdle
    /\ ImagesIdle
    /\ BackoffIdle
    /\ StrategyIdle
    /\ \E n \in 1..MaxBatch : \E a \in [1..n -> ParsedItems] :
         validation = [parsed |-> a, suggestions |-> a, cursor |-> 1, phase |-> "loop"]

NextValidation == ValidateItem \/ PersistValidated

SpecValidation == InitValidation /\ [][NextValidation]_vars

(* ------------------------------- C14 ----------------------------------- *)

\* C14 (as claimed): the coercion never fails the request, and every item is
\* persisted with a contentType of the vocabulary: its own when it was in the
\* vocabulary, "Post" when it was missing or anything else.  It holds of every
\* array of objects; an element that is no object (null) makes the coercion
\* throw.
C14_TypesCoerced ==
    /\ validation.phase # "threw"
    /\ validation.phase = "saved" =>
         \A k \in 1..Len(validation.parsed) :
            LET was == validation.parsed[k].contentType
                is == validation.suggestions[k].contentType
            IN /\ is \in ValidTypes
               /\ was \in ValidTypes => is = was
               /\ was \notin ValidTypes => is = "Post"

(* ------------------------------- C15 ----------------------------------- *)

\* C15: a refresh that answers 200 replaces exactly the targeted row: same
\* id, userId, source and collection, new content and images, createdAt = now,
\* refreshed = true; all other rows, and the size of the bucket, are unchanged.
C15_RefreshInPlace ==
    [][\A p \in Procs :
         LET q == proc[p]
         IN (q.pc = "update" /\ proc'[p].pc = "done" /\ proc'[p].resp.status = 200) =>
              \E r \in store, u \in store' :
                 /\ r.id = q.suggestionId /\ u.id = r.id
                 /\ u.userId = r.userId /\ u.source = r.source /\ u.model = r.model
                 /\ u.title = q.generated[1].title
                 /\ u.title # r.title
                 /\ u.imageUrls = q.generated[1].imageUrls
                 /\ u.createdAt = now
                 /\ u.refreshed
                 /\ proc'[p].resp.body = <<u>>
                 /\ store' \ {u} = store \ {r}
                 /\ Cardinality(store') = Cardinality(store)
                 /\ Cardinality(BucketOf(store', r.userId, r.source))
                      = Cardinality(BucketOf(store, r.userId, r.source))]_vars

\* A refresh answered 200; the refreshed row sits in the store next to
\* siblings that were not refreshed.
C15_Witness ==
    \E p \in Procs :
        /\ proc[p].pc = "done"
        /\ proc[p].handler = "refreshSingleSuggestion"
        /\ proc[p].resp.status = 200
        /\ proc[p].resp.body[1] \in store
        /\ proc[p].resp.body[1].refreshed
        /\ \E o \in store : ~o.refreshed /\ o.source = proc[p].resp.body[1].source

(* ------------------------------- C16 ----------------------------------- *)

\* C16 (as claimed): a refresh of a suggestionId that matches no stored
\* suggestion answers 404 before any external service is called.  (With a
\* business profile present, 404 can only mean "Suggestion not found".)
C16_NotFoundBeforeCalls ==
    \A p \in Procs :
        (/\ proc[p].pc = "done"
         /\ proc[p].handler = "refreshSingleSuggestion"
         /\ proc[p].userId \in profiles
         /\ proc[p].resp.status = 404)
        => proc[p].ext = {}

(* ==================== fetchAndStoreInstagramPosts ====================== *)

\* The users whose posts are fetched (two users may have connected the same
\* Instagram account), the ids the media API returns ("" : a post without
\* id), and the listings it may answer: any order, repetitions included.
CacheUsers == {"u1", "u2"}
PostIds == {"p1", "p2"}
Listings == UNION {[1..n -> PostIds \cup {""}] : n \in 0..MaxListing}

notCache == <<core, files, validation, digest, parser, imgloop, backoff, strategy>>

SetFetch(f, r) == fetchers' = [fetchers EXCEPT ![f] = r]

\* Variant of PostExists that never finds the post.
PostExists_Never(id, S) == FALSE

\* InstagramPost.findOne({ instagramId: post.id }): any user's post matches.
PostExists(id, S) == \E r \in S : r.instagramId = id

\* The unique index on the post's external id: a second document with the
\* same instagramId is rejected with a duplicate-key error.
UniqueViolation(id, S) == \E r \in S : r.instagramId = id

\* A call of fetchAndStoreInstagramPosts(userId, accessToken) begins.
StartFetch(f) ==
    /\ fetchers[f].pc \in {"idle", "done", "failed"}
    /\ nfetch < MaxFetches
    /\ nfetch' = nfetch + 1
    /\ \E u \in CacheUsers : SetFetch(f, [FetchIdle EXCEPT !.pc = "get", !.userId = u])
    /\ UNCHANGED <<posts, notCache>>

\* axios.get(requestUrl): throws, or answers a listing; an empty listing
\* returns at once.
GetMedia(f) ==
    /\ fetchers[f].pc = "get"
    /\ \/ SetFetch(f, [fetchers[f] EXCEPT !.pc = "failed"])
       \/ \E l \in Listings :
            SetFetch(f, [fetchers[f] EXCEPT !.listing = l, !.k = 1,
                                            !.pc = IF Len(l) = 0 THEN "done" ELSE "findOne"])
    /\ UNCHANGED <<posts, nfetch, notCache>>

\* One iteration of the loop up to the findOne: a post without id and a post
\* already cached are skipped.
FindOnePost(f) ==
    LET q == fetchers[f]
        next == [q EXCEPT !.k = @ + 1, !.pc = IF q.k < Len(q.listing) THEN "findOne" ELSE "done"]
    IN /\ q.pc = "findOne"
       /\ IF q.listing[q.k] = "" \/ PostExists(q.listing[q.k], posts)
          THEN SetFetch(f, next)
          ELSE SetFetch(f, [q EXCEPT !.pc = "create"])
       /\ UNCHANGED <<posts, nfetch, notCache>>

\* Variant of CreatePost that replaces the user's cached posts by the new one.
CreatePost_Replace(f) ==
    LET q == fetchers[f]
        id == q.listing[q.k]
    IN /\ q.pc = "create"
       /\ posts' = {r \in posts : r.userId # q.userId} \cup
                      {[oid |-> Cardinality(posts) + 1, userId |-> q.userId, instagramId |-> id]}
       /\ SetFetch(f, [q EXCEPT !.k = @ + 1,
                                !.pc = IF q.k < Len(q.listing) THEN "findOne" ELSE "done"])
       /\ UNCHANGED <<nfetch, notCache>>

\* InstagramPost.create({userId, instagramId: post.id, ...}).
CreatePost(f) ==
    LET q == fetchers[f]
        id == q.listing[q.k]
    IN /\ q.pc = "create"
       /\ IF UniqueViolation(id, posts)
          THEN /\ SetFetch(f, [q EXCEPT !.pc = "failed"])
               /\ UNCHANGED posts
          ELSE /\ posts' = posts \cup {[oid |-> Cardinality(posts) + 1, userId |-> q.userId,
                                       instagramId |-> id]}
               /\ SetFetch(f, [q EXCEPT !.k = @ + 1,
                                        !.pc = IF q.k < Len(q.listing) THEN "findOne" ELSE "done"])
       /\ UNCHANGED <<nfetch, notCache>>

InitCache == CoreIdle /\ SideIdle

NextCache == \E f \in Procs : StartFetch(f) \/ GetMedia(f) \/ FindOnePost(f) \/ CreatePost(f)

SpecCache == InitCache /\ [][NextCache]_vars

(* ------------------------------- C17 ----------------------------------- *)

\* Some cached post carries this external id.
Cached(id) == \E r \in posts : r.instagramId = id

LikesOf == <<10, 50, 5, 80, 20, 50>>
CachedPosts == [id : 1..Len(LikesOf), hasMedia : BOOLEAN]
CachesOf == {S \in SUBSET CachedPosts : \A a, b \in S : a.id = b.id => a = b}

Min2(a, b) == IF a < b THEN a ELSE b

\* .sort({ likeCount: -1 }).limit(n): the rankings the database may answer,
\* posts with equal likeCount in any order.
RECURSIVE SortByLikesLimit(_, _)
SortByLikesLimit(S, n) ==
    IF n = 0 \/ S = {} THEN {<<>>}
    ELSE UNION {{<<m>> \o t : t \in SortByLikesLimit(S \ {m}, n - 1)} :
                   m \in {x \in S : \A y \in S : LikesOf[y.id] <= LikesOf[x.id]}}

\* Variant of SummaryOf that lists only the first three posts.
SummaryOf_TopThree(top) ==
    [k \in 1..Min2(TopImages, Len(top)) |-> [rank |-> k, id |-> top[k].id, likes |-> LikesOf[top[k].id]]]

\* topPosts.map((post, idx) => `${idx + 1}. "caption" (Likes: ..)`): one line
\* per post of topPosts.
SummaryOf(top) ==
    [k \in 1..Len(top) |-> [rank |-> k, id |-> top[k].id, likes |-> LikesOf[top[k].id]]]

\* topPosts.map(post => post.mediaUrl).filter(Boolean).slice(0, 3)
ImageUrlsOf(top) ==
    LET withMedia == SelectSeq(top, LAMBDA x : x.hasMedia)
    IN [k \in 1..Min2(TopImages, Len(withMedia)) |-> withMedia[k].id]

notDigest == <<core, files, validation, cache, parser, imgloop, backoff, strategy>>

\* InstagramPost.find({userId}).sort().limit(5), the summary and the image
\* section of the prompt.
BuildDigest ==
    /\ digest.phase = "cached"
    /\ \E top \in SortByLikesLimit(digest.cached, TopLimit) :
         digest' = [digest EXCEPT !.phase = "built", !.top = top,
                                  !.summary = SummaryOf(top), !.images = ImageUrlsOf(top)]
    /\ UNCHANGED notDigest

InitDigest ==
    /\ CoreIdle /\ FilesIdle /\ ValidationIdle /\ CacheIdle /\ ParserIdle /\ ImagesIdle /\ BackoffIdle /\ StrategyIdle
    /\ \E S \in CachesOf :
         digest = [cached |-> S, phase |-> "cached", top |-> <<>>, summary |-> <<>>, images |-> <<>>]

NextDigest == BuildDigest

SpecDigest == InitDigest /\ [][NextDigest]_vars

(* ------------------------------- C18 ----------------------------------- *)

\* The ranking is the (at most) 5 most liked cached posts, most liked first.
RankedTopFive ==
    LET top == digest.top
    IN /\ Len(top) = Min2(TopLimit, Cardinality(digest.cached))
       /\ \A k \in 1..Len(top) : top[k] \in digest.cached
       /\ \A j, k \in 1..Len(top) : j < k =>
             top[j] # top[k] /\ LikesOf[top[j].id] >= LikesOf[top[k].id]
       /\ \A x \in digest.cached : \A k \in 1..Len(top) :
             (\A j \in 1..Len(top) : top[j] # x) => LikesOf[x.id] <= LikesOf[top[k].id]

\* The image section lists at most 3 URLs: those of the first posts of the
\* ranking that have a mediaUrl, in rank order.
ImagesOfTopRanked ==
    LET top == digest.top
        img == digest.images
        has == {k \in 1..Len(top) : top[k].hasMedia}
    IN /\ Len(img) = Min2(TopImages, Cardinality(has))
       /\ \A n \in 1..Len(img) :
             \E k \in has : /\ top[k].id = img[n]
                            /\ Cardinality({j \in has : j < k}) = n - 1

\* C18 (as claimed): the digest holds exactly the top 3 of the ranking, in
\* rank order, and at most 3 image URLs.
C18_DigestTopThree ==
    digest.phase = "built" =>
        /\ RankedTopFive
        /\ Len(digest.summary) = Min2(3, Len(digest.top))
        /\ \A k \in 1..Len(digest.summary) : digest.summary[k].id = digest.top[k].id
        /\ Len(digest.images) <= 3

\* C18 (amended): the digest holds every post of the ranking (up to 5), in
\* rank order with its like count, and the image URLs of the first 3 ranked
\* posts that have one.
C18_DigestTopFive ==
    digest.phase = "built" =>
        /\ RankedTopFive
        /\ Len(digest.summary) = Len(digest.top)
        /\ \A k \in 1..Len(digest.top) :
              /\ digest.summary[k].rank = k
              /\ digest.summary[k].id = digest.top[k].id
              /\ digest.summary[k].likes = LikesOf[digest.top[k].id]
        /\ ImagesOfTopRanked

\* The cache holds the posts with likes 10, 50, 5, 80, 20; the digest lists
\* all five, 80, 50, 20, 10, 5.
C18_Witness ==
    /\ digest.phase = "built"
    /\ {x.id : x \in digest.cached} = 1..5
    /\ [k \in 1..Len(digest.summary) |-> digest.summary[k].likes] = <<80, 50, 20, 10, 5>>
    /\ Len(digest.images) = 3

(* ================= buckets of several users and sources ================ *)

\* Two users, each with a business bucket and an Instagram bucket.
BucketUsers == {"u1", "u2"}
GetHandlers == {"getOrGenerateSuggestions", "getOrGenerateUserSuggestions"}
Buckets == <<[userId |-> "u1", handler |-> "getOrGenerateSuggestions"],
             [userId |-> "u1", handler |-> "getOrGenerateUserSuggestions"],
             [userId |-> "u2", handler |-> "getOrGenerateSuggestions"],
             [userId |-> "u2", handler |-> "getOrGenerateUserSuggestions"]>>

\* A bucket holds nothing, fewer than MinCount rows, or MinCount rows.
PriorSizes == {0, MinCount - 1, MinCount}

\* The n rows that request number b inserted into bucket Buckets[b] at time
\* 0, as insertMany wrote them.
PriorRows(b, n) ==
    {[id |-> <<b, k>>, model |-> ModelOf(Buckets[b].handler), userId |-> Buckets[b].userId,
      source |-> SourceOf(Buckets[b].handler), createdAt |-> 0, refreshed |-> FALSE,
      title |-> <<b, k>>, imageUrls |-> <<>>] : k \in 1..n}

\* Earlier requests have filled the buckets; both users have a profile.
InitBuckets ==
    /\ \E sizes \in [1..Len(Buckets) -> PriorSizes] :
         store = UNION {PriorRows(b, sizes[b]) : b \in 1..Len(Buckets)}
    /\ profiles = BucketUsers
    /\ now = 0
    /\ nreq = Len(Buckets)
    /\ proc = [p \in Procs |-> Idle]
    /\ SideIdle

\* One more request enters getOrGenerateSuggestions or
\* getOrGenerateUserSuggestions, for either user.
StartOn(p) ==
    /\ proc[p].pc = "idle"
    /\ p = Slot(nreq)
    /\ nreq = Len(Buckets)
    /\ \E h \in GetHandlers, u \in BucketUsers :
         Set(p, [Idle EXCEPT !.pc = "find", !.handler = h, !.userId = u, !.reqNo = nreq + 1])
    /\ nreq' = nreq + 1
    /\ UNCHANGED <<store, profiles, now, side>>

WorkGet(p) ==
    \/ Find(p)
    \/ Delete(p)
    \/ Profile(p)
    \/ Sleep(p)
    \/ FetchPosts(p)
    \/ Text(p)
    \/ Image(p)
    \/ Download(p)
    \/ Insert(p)

NextBuckets == Tick \/ \E p \in Procs : StartOn(p) \/ WorkGet(p)

SpecBuckets == InitBuckets /\ [][NextBuckets]_vars

(* ------------------------------- C19 ----------------------------------- *)

\* The rows of S outside the bucket of request q.
OutsideBucket(S, q) == S \ BucketIn(S, q)

\* C19: a getOrGenerate on bucket (u, s) reads exactly the rows of (u, s),
\* decides staleness from them alone, deletes only rows of (u, s), inserts
\* only rows of (u, s), and leaves every row of another user or another
\* source as it was.
C19_BucketKeyed ==
    [][\A p \in Procs :
         LET q == proc[p]
             B == BucketIn(store, q)
         IN (IsGet(q.handler) /\ q.pc \notin {"idle", "done"}) =>
              /\ OutsideBucket(store', q) = OutsideBucket(store, q)
              /\ FindStep(p) =>
                   /\ (proc'[p].pc = "delete") = ShouldGenerate(q.handler, SortDesc(B), now)
                   /\ (proc'[p].pc = "delete") => Range(proc'[p].existing) = B
                   /\ (proc'[p].pc = "done") => Range(proc'[p].resp.body) = B
              /\ DeleteStep(p) => store' = store \ B
              /\ InsertStep(p) => store \subseteq store' /\ store' \ store \subseteq BucketIn(store', q)
      ]_vars

\* A request of u1 on the business bucket evicted rows and stored new ones,
\* while the full buckets of u2 and of u1's Instagram suggestions are as they
\* were.
C19_Witness ==
    \E p \in Procs :
        /\ proc[p].pc = "done"
        /\ proc[p].handler = "getOrGenerateSuggestions"
        /\ proc[p].userId = "u1"
        /\ proc[p].resp.status = 200
        /\ proc[p].deletedCount > 0
        /\ Len(proc[p].resp.body) > 0
        /\ BucketOf(store, "u1", "businessProfile") = Range(proc[p].resp.body)
        /\ BucketOf(store, "u2", "businessProfile") = PriorRows(3, MinCount)
        /\ BucketOf(store, "u1", "userProfile") = PriorRows(2, MinCount)

(* ================== parse of the text service's answer ================= *)

\* A raw answer is a sequence of tokens: the fence marker, a language tag
\* ("json" or another one), whitespace, the text of a JSON array ("A", "B"),
\* the text of a JSON value that is not an array and holds none, and prose:
\* "x" without brackets, "x[" with an opening bracket, "x]" with a closing
\* one, "x[]" with a bracketed remark that is not JSON.
Fence == "fence"
Arrays == {"A", "B"}
JsonValues == Arrays \cup {"obj"}
Prose == {"x", "x[", "x]", "x[]"}

\* The tokens that hold a "[", and those that hold a "]".
HasOpen == Arrays \cup {"x[", "x[]"}
HasClose == Arrays \cup {"x]", "x[]"}

\* The answers of the text service: an optional lead, an optional opening
\* fence with an optional tag, a payload, an optional closing fence, a tail.
RawAnswers ==
    {lead \o open \o tag \o gap1 \o payload \o gap2 \o close \o trail :
        lead \in {<<>>, <<"ws">>} \cup {<<x>> : x \in Prose}, open \in {<<>>, <<Fence>>},
        tag \in {<<>>, <<"json">>, <<"js">>}, gap1 \in {<<>>, <<"ws">>},
        payload \in {<<>>, <<"A">>, <<"B">>, <<"obj">>, <<"x">>, <<"A", "ws", "B">>},
        gap2 \in {<<>>, <<"ws">>}, close \in {<<>>, <<Fence>>},
        trail \in {<<>>, <<"ws">>} \cup {<<x>> : x \in Prose}}

RECURSIVE TrimLeft(_)
\* Leading whitespace removed (/^\s*/).
TrimLeft(s) == IF s # <<>> /\ s[1] = "ws" THEN TrimLeft(Tail(s)) ELSE s

RECURSIVE TrimRight(_)
\* Trailing whitespace removed (/\s*$/).
TrimRight(s) == IF s # <<>> /\ s[Len(s)] = "ws" THEN TrimRight(SubSeq(s, 1, Len(s) - 1)) ELSE s

\* raw.trim()
Trim(s) == TrimRight(TrimLeft(s))

\* The opening replace of cleanedRaw (fence, optional json tag, whitespace):
\* the first n tokens and the whitespace after them.
StripOpening(s, n) == TrimLeft(SubSeq(s, n + 1, Len(s)))

\* The closing replace of cleanedRaw: whitespace and a fence at the end.
StripClosing(s) ==
    IF s # <<>> /\ s[Len(s)] = Fence THEN TrimRight(SubSeq(s, 1, Len(s) - 1)) ELSE s

\* cleanedRaw: trim, then the fence-with-json branch, else the bare fence branch.
CleanRaw(raw) ==
    LET t == Trim(raw)
    IN IF Len(t) >= 2 /\ t[1] = Fence /\ t[2] = "json" THEN StripClosing(StripOpening(t, 2))
       ELSE IF Len(t) >= 1 /\ t[1] = Fence THEN StripClosing(StripOpening(t, 1))
       ELSE t

\* JSON.parse: one JSON value, whitespace around it allowed; anything else
\* throws.
JsonParse(s) ==
    LET t == Trim(s)
    IN IF Len(t) = 1 /\ t[1] \in JsonValues THEN [ok |-> TRUE, value |-> t[1]]
       ELSE [ok |-> FALSE, value |-> "none"]

\* raw.match(/\[[\s\S]*\]/): from the first "[" to the last "]".
RegexMatch(raw) ==
    LET opens == {k \in 1..Len(raw) : raw[k] \in HasOpen}
        first == CHOOSE k \in opens : \A j \in opens : k <= j
        closes == {k \in 1..Len(raw) : raw[k] \in HasClose /\ (k > first \/ (k = first /\ raw[k] # "x]"))}
    IN IF opens = {} THEN <<>>
       ELSE IF closes = {} THEN <<>>
       ELSE SubSeq(raw, first, CHOOSE k \in closes : \A j \in closes : j <= k)

\* Variant of ParseResponse without the Array.isArray check.
ParseResponse_AnyValue(raw) ==
    LET direct == JsonParse(CleanRaw(raw))
        regex == JsonParse(RegexMatch(raw))
        parsed == IF direct.ok THEN direct ELSE regex
    IN [cleanedRaw |-> CleanRaw(raw),
        direct |-> direct.ok,
        result |-> IF parsed.ok
                   THEN [kind |-> "success", value |-> parsed.value]
                   ELSE [kind |-> "failure", value |-> "none"]]

\* The parsing ladder and the Array.isArray check.
ParseResponse(raw) ==
    LET direct == JsonParse(CleanRaw(raw))
        regex == JsonParse(RegexMatch(raw))
        parsed == IF direct.ok THEN direct ELSE regex
    IN [cleanedRaw |-> CleanRaw(raw),
        direct |-> direct.ok,
        result |-> IF parsed.ok /\ parsed.value \in Arrays
                   THEN [kind |-> "success", value |-> parsed.value]
                   ELSE [kind |-> "failure", value |-> "none"]]

notParser == <<core, files, validation, cache, digest, imgloop, backoff, strategy>>

\* The answer of the text service is parsed.
Parse ==
    /\ parser.phase = "raw"
    /\ parser' = [parser EXCEPT !.phase = "parsed",
                                !.cleanedRaw = ParseResponse(parser.raw).cleanedRaw,
                                !.direct = ParseResponse(parser.raw).direct,
                                !.result = ParseResponse(parser.raw).result]
    /\ UNCHANGED notParser

InitParser ==
    /\ CoreIdle /\ FilesIdle /\ ValidationIdle /\ CacheIdle /\ DigestIdle /\ ImagesIdle /\ BackoffIdle /\ StrategyIdle
    /\ \E raw \in RawAnswers :
         parser = [raw |-> raw, phase |-> "raw", cleanedRaw |-> <<>>, direct |-> FALSE,
                   result |-> [kind |-> "none", value |-> "none"]]

NextParser == Parse

SpecParser == InitParser /\ [][NextParser]_vars

(* ------------------------------- C20 ----------------------------------- *)

\* The array a wrapped in a fenced block, with or without a language tag,
\* with or without whitespace around the block and inside it.
FencedForms(a) ==
    {lead \o <<Fence>> \o tag \o gap1 \o <<a>> \o gap2 \o <<Fence>> \o trail :
        lead \in {<<>>, <<"ws">>}, tag \in {<<>>, <<"json">>, <<"js">>},
        gap1 \in {<<>>, <<"ws">>}, gap2 \in {<<>>, <<"ws">>}, trail \in {<<>>, <<"ws">>}}

\* C20: a JSON array wrapped in a fenced block (with or without a language
\* tag, with surrounding whitespace) parses to the same result as the bare
\* array: the markers are stripped and the direct parse of the remainder
\* succeeds.
C20_FencedParsesDirect ==
    \A a \in Arrays :
        (parser.phase = "parsed" /\ parser.raw \in FencedForms(a)) =>
            /\ parser.result = [kind |-> "success", value |-> a]
            /\ parser.cleanedRaw = <<a>>
            /\ parser.direct

(* ------------------------------- C21 ----------------------------------- *)

\* Explanatory prose, the array a, more explanatory prose; the prose may hold
\* brackets.
ProseForms(a) ==
    {<<x>> \o gap1 \o <<a>> \o gap2 \o <<y>> :
        x \in Prose, y \in Prose, gap1 \in {<<>>, <<"ws">>}, gap2 \in {<<>>, <<"ws">>}}

\* C21: prose, a valid JSON array and more prose parse to that array through
\* the fallback, tried only after the direct parse failed, also when the
\* prose holds "[" or "]".
C21_ProseFallback ==
    \A a \in Arrays :
        (parser.phase = "parsed" /\ parser.raw \in ProseForms(a)) =>
            /\ ~parser.direct
            /\ parser.result = [kind |-> "success", value |-> a]

(* ------------------------------- C22 ----------------------------------- *)

\* The two stages of the ladder on the raw answer.
DirectParse == JsonParse(CleanRaw(parser.raw))
FallbackParse == JsonParse(RegexMatch(parser.raw))

\* C22: the parser fails exactly when the direct parse and the fallback both
\* fail or the parsed value is not an array; otherwise it succeeds with the
\* parsed array, and a success is always an array.
C22_FailsExactlyWhenMalformed ==
    parser.phase = "parsed" =>
        LET bothFail == ~DirectParse.ok /\ ~FallbackParse.ok
            value == IF DirectParse.ok THEN DirectParse.value ELSE FallbackParse.value
        IN /\ (parser.result.kind = "failure") = (bothFail \/ value \notin Arrays)
           /\ (parser.result.kind = "success") = ~(bothFail \/ value \notin Arrays)
           /\ parser.result.kind = "success" => parser.result.value = value /\ value \in Arrays

\* The answer is a JSON value that is not an array: the direct parse
\* succeeds and the parser fails.
C22_Witness ==
    /\ parser.phase = "parsed"
    /\ parser.raw = <<Fence, "json", "ws", "obj", "ws", Fence>>
    /\ parser.direct
    /\ parser.result.kind = "failure"

(* ============ the image loop of generateImagesForSuggestions =========== *)

\* What openai.images.generate may throw: a rate limit (429) or another
\* error.
ImageErrors == {"rateLimit", "upstream"}

\* A suggestion in the loop: whether its image prompt is too short, its
\* imageUrls, how often images.generate was invoked for it, the last error.
LoopItems == [short : BOOLEAN, imageUrls : {<<>>}, attempts : {0}, error : {"none"}]

\* Variant of ImageRetries that retries a rate limit as callWithBackoff does.
ImageRetries_Backoff(e, attempts) == BackoffRetries(StatusOf(e), attempts - 1, DefaultRetries)

\* The catch of the loop: no status test, no sleep, no second invocation.
ImageRetries(e, attempts) == FALSE

notImages == <<core, files, validation, cache, digest, parser, backoff, strategy>>

\* One turn of the for loop: the short-prompt check, images.generate and the
\* catch.
GenerateImage ==
    LET k == imgloop.idx
        n == Len(imgloop.items)
        item == imgloop.items[k]
        goOn(it, out) ==
            imgloop' = [imgloop EXCEPT !.items[k] = it,
                                       !.idx = ImageLoopNext(k, n, out),
                                       !.phase = IF ImageLoopNext(k, n, out) = 0 THEN "returned" ELSE "loop"]
    IN /\ imgloop.phase = "loop"
       /\ IF item.short
          THEN goOn([item EXCEPT !.imageUrls = <<>>], "skip")
          ELSE \E out \in {"ok"} \cup ImageErrors :
                 LET c == [item EXCEPT !.attempts = @ + 1]
                 IN IF out = "ok" THEN goOn([c EXCEPT !.imageUrls = ExtUrls, !.error = "none"], "ok")
                    ELSE IF ImageRetries(out, c.attempts)
                         THEN imgloop' = [imgloop EXCEPT !.items[k] = [c EXCEPT !.error = out]]
                         ELSE goOn([c EXCEPT !.imageUrls = <<>>, !.error = out], "fail")
       /\ UNCHANGED notImages

InitImages ==
    /\ CoreIdle /\ FilesIdle /\ ValidationIdle /\ CacheIdle /\ DigestIdle /\ ParserIdle /\ BackoffIdle /\ StrategyIdle
    /\ \E n \in 1..MaxItems : \E a \in [1..n -> LoopItems] :
         imgloop = [items |-> a, idx |-> 1, phase |-> "loop"]

NextImages == GenerateImage

SpecImages == InitImages /\ [][NextImages]_vars

(* ------------------------------- C23 ----------------------------------- *)

\* The items the loop is done with.
LoopDone == {k \in 1..Len(imgloop.items) : imgloop.phase = "returned" \/ k < imgloop.idx}

\* C23 (as claimed): an item whose image request was answered with a rate
\* limit degrades to an empty image list only after the retries of the
\* backoff wrapper (1000ms, 2000ms, 4000ms) are exhausted, that is after
\* DefaultRetries + 1 invocations of the image service.
C23_ImageRetried ==
    \A k \in LoopDone :
        (imgloop.items[k].error = "rateLimit" /\ imgloop.items[k].imageUrls = <<>>) =>
            imgloop.items[k].attempts = DefaultRetries + 1

\* C23 (amended): the image service is invoked once per item with a long
\* enough prompt and never again; whatever error it answers, a rate limit
\* included, the item degrades at once to an empty image list, and an item
\* without error carries the generated URLs.
C23_ImageNotRetried ==
    \A k \in LoopDone :
        LET it == imgloop.items[k]
        IN /\ it.attempts = IF it.short THEN 0 ELSE 1
           /\ it.error # "none" => it.imageUrls = <<>>
           /\ (~it.short /\ it.error = "none") => it.imageUrls = ExtUrls

\* The first item's image request was rate limited and degraded after one
\* invocation; the loop went on and the second item got its images.
C23_Witness ==
    /\ imgloop.phase = "returned"
    /\ Len(imgloop.items) >= 2
    /\ imgloop.items[1].error = "rateLimit"
    /\ imgloop.items[1].attempts = 1
    /\ imgloop.items[1].imageUrls = <<>>
    /\ imgloop.items[2].imageUrls = ExtUrls

(* ------------------------------- C24 ----------------------------------- *)

\* The rows in S that request q has persisted.
PersistedBy(S, q) == {r \in S : r.id[1] = q.reqNo /\ r.model = ModelOf(q.handler)}

\* C24: a regeneration persists nothing before its insert; the insert comes
\* after the eviction and after the text call, and by then every item's
\* image step is over: its imageUrls is empty (degraded or none generated)
\* or the one local URL of its downloaded image, never a pending external
\* URL; the insert persists exactly these items.
C24_InsertAfterImages ==
    [][\A p \in Procs :
         LET q == proc[p]
         IN (IsGet(q.handler) /\ q.pc \notin {"idle", "done"}) =>
              /\ PersistedBy(store, q) = {}
              /\ InsertStep(p) =>
                   /\ q.deletedCount >= 0
                   /\ "text" \in q.ext
                   /\ \A k \in 1..Len(q.generated) :
                        q.generated[k].imageUrls \in {<<>>, <<LocalUrl(q.reqNo, k)>>}
                   /\ PersistedBy(store', q) = Range(proc'[p].resp.body)
                   /\ \A k \in 1..Len(q.generated) :
                        \E r \in PersistedBy(store', q) :
                            r.id = <<q.reqNo, k>> /\ r.imageUrls = q.generated[k].imageUrls
      ]_vars

\* A regeneration evicted a row, generated two items, one whose image was
\* downloaded and one that degraded, and then persisted both.
C24_Witness ==
    \E p \in Procs :
        /\ proc[p].pc = "done"
        /\ IsGet(proc[p].handler)
        /\ proc[p].resp.status = 200
        /\ proc[p].deletedCount > 0
        /\ Len(proc[p].resp.body) = 2
        /\ proc[p].resp.body[1].imageUrls = <<LocalUrl(proc[p].reqNo, 1)>>
        /\ proc[p].resp.body[2].imageUrls = <<>>
        /\ Range(proc[p].resp.body) \subseteq store

(* ============ several users: profiles, regeneration, refresh =========== *)

\* The user ids a profile may carry: the two users and one more id.
ProfileIds == BucketUsers \cup {"u3"}

\* findOneAndUpdate({ userId }, req.body, { upsert: true }) on the profiles,
\* which are unique per userId.  The body may carry a userId t: without one
\* (t = u) the profile of u is updated or created; with another one the
\* document takes the userId t, unless t has a profile already (duplicate
\* key, answered with 400).
UpsertProfile(P, u, t) ==
    IF t = u THEN P \cup {u}
    ELSE IF t \in P THEN P
    ELSE (P \ {u}) \cup {t}

\* updateProfile, called by user u.
UpdateProfile(u, t) ==
    /\ profiles' = UpsertProfile(profiles, u, t)
    /\ profiles' # profiles
    /\ UNCHANGED <<store, now, nreq, proc, side>>

\* Earlier requests have left nothing or fewer than MinCount rows in each
\* bucket; both users have a profile.
InitTenants ==
    /\ \E sizes \in [1..Len(Buckets) -> {0, MinCount - 1}] :
         store = UNION {PriorRows(b, sizes[b]) : b \in 1..Len(Buckets)}
    /\ profiles = BucketUsers
    /\ now = 0
    /\ nreq = Len(Buckets)
    /\ proc = [p \in Procs |-> Idle]
    /\ SideIdle

\* One more request enters one of the three handlers, for either user; a
\* refresh names any stored suggestion or none.
StartTenant(p) ==
    /\ proc[p].pc = "idle"
    /\ p = Slot(nreq)
    /\ nreq = Len(Buckets)
    /\ \E h \in Handlers, u \in BucketUsers, sid \in {r.id : r \in store} \cup {NoId} :
         /\ (h # "refreshSingleSuggestion") => sid = NoId
         /\ Set(p, [Idle EXCEPT !.pc = IF IsGet(h) THEN "find" ELSE "profile",
                                !.handler = h, !.userId = u, !.suggestionId = sid,
                                !.reqNo = nreq + 1])
    /\ nreq' = nreq + 1
    /\ UNCHANGED <<store, profiles, now, side>>

NextTenants ==
    \/ Tick
    \/ \E u \in BucketUsers, t \in ProfileIds : UpdateProfile(u, t)
    \/ \E p \in Procs : StartTenant(p) \/ Work(p)

SpecTenants == InitTenants /\ [][NextTenants]_vars

(* ------------------------------- C27 ----------------------------------- *)

\* C27: a getOrGenerate that ends in NotFound has evicted nothing.
C27_NotFoundKeepsBucket ==
    \A p \in Procs :
        (proc[p].pc = "done" /\ IsGet(proc[p].handler) /\ proc[p].resp.status = 404) =>
            proc[p].deletedCount <= 0

(* ------------------------------- C28 ----------------------------------- *)

\* The step is the findByIdAndUpdate of a refresh.
UpdateStep(p) ==
    /\ proc[p].handler = "refreshSingleSuggestion"
    /\ proc[p].pc = "update"
    /\ proc'[p].pc = "done"

FnOutcomes == {"ok", "rateLimit", "upstream", "malformed"}

notBackoff == <<core, files, validation, cache, digest, parser, imgloop, strategy>>

\* return await fn() and the catch: a rate limit with i < retries leads to
\* the sleep, any other error is thrown to the caller.
InvokeFn ==
    /\ backoff.pc = "call"
    /\ \E out \in FnOutcomes :
         LET c == [backoff EXCEPT !.calls = @ + 1]
         IN backoff' =
              IF out = "ok" THEN [c EXCEPT !.pc = "returned", !.successes = @ + 1]
              ELSE IF BackoffRetries(StatusOf(out), c.i, c.retries)
                   THEN [c EXCEPT !.pc = "sleep", !.error = out]
                   ELSE [c EXCEPT !.pc = "thrown", !.error = out]
    /\ UNCHANGED notBackoff

\* The timer fires, delayMs doubles, continue: i++ and the loop test
\* i <= retries; when it fails the function reaches its last statement,
\* throw new Error("Failed after retries").
SleepAndContinue ==
    /\ backoff.pc = "sleep"
    /\ backoff' = [backoff EXCEPT !.waits = Append(@, backoff.delayMs),
                                  !.delayMs = NextDelay(@),
                                  !.i = @ + 1,
                                  !.pc = IF backoff.i + 1 <= backoff.retries THEN "call" ELSE "failedAfterRetries"]
    /\ UNCHANGED notBackoff

\* callWithBackoff(fn, retries, delayMs) is entered: i = 0 and the loop test.
InitBackoff ==
    /\ CoreIdle /\ FilesIdle /\ ValidationIdle /\ CacheIdle /\ DigestIdle /\ ParserIdle /\ ImagesIdle /\ StrategyIdle
    /\ \E r \in 0..MaxRetries, d \in {DefaultDelayMs, 2 * DefaultDelayMs} :
         backoff = [retries |-> r, delayMs |-> d, i |-> 0, calls |-> 0, waits |-> <<>>,
                    pc |-> "call", error |-> "none", successes |-> 0]

NextBackoff == InvokeFn \/ SleepAndContinue

SpecBackoff == InitBackoff /\ [][NextBackoff]_vars

\* Every invocation of fn settles and every timer fires.
SpecBackoffFair == SpecBackoff /\ WF_vars(InvokeFn) /\ WF_vars(SleepAndContinue)

(* ------------------------------- C29 ----------------------------------- *)

BackoffOver == backoff.pc \in {"returned", "thrown", "failedAfterRetries"}

\* C29: callWithBackoff terminates; it invokes fn at most retries + 1 times,
\* returns at the first invocation that succeeds and invokes fn no more,
\* and never reaches its final throw.
C29_BackoffTerminates ==
    /\ <>BackoffOver
    /\ [](/\ backoff.calls <= backoff.retries + 1
          /\ backoff.successes <= 1
          /\ (backoff.successes = 1) = (backoff.pc = "returned")
          /\ backoff.pc # "failedAfterRetries")
    /\ [][backoff.pc = "returned" => backoff' = backoff]_vars

\* Every attempt was rate limited but the last, which succeeded: retries + 1
\* invocations, then the return.
C29_Witness ==
    /\ backoff.pc = "returned"
    /\ backoff.retries = DefaultRetries
    /\ backoff.calls = DefaultRetries + 1
    /\ Len(backoff.waits) = DefaultRetries

(* ==================== generateContentFromProfile ======================= *)

\* The optional arguments are undefined or a value.
Supplied(x) == x # "undefined"

\* Variant of SelectedStrategy that looks at the userId only.
SelectedStrategy_UserOnly(userId, accessToken) ==
    IF Supplied(userId) THEN "profileAndInstagram" ELSE "profileOnly"

\* if (userId && accessToken)
SelectedStrategy(userId, accessToken) ==
    IF Supplied(userId) /\ Supplied(accessToken) THEN "profileAndInstagram" ELSE "profileOnly"

notStrategy == <<core, files, validation, cache, digest, parser, imgloop, backoff>>

\* The test of generateContentFromProfile: the Instagram strategy starts
\* with a fetch when updateInstagramPosts is set, otherwise with the body of
\* generateContentBasedOnProfileAndInstagram; the profile-only strategy goes
\* to its text call.
SelectStrategy ==
    /\ strategy.pc = "entry"
    /\ strategy' =
         [strategy EXCEPT
            !.chosen = SelectedStrategy(strategy.userId, strategy.accessToken),
            !.pc = IF SelectedStrategy(strategy.userId, strategy.accessToken) = "profileOnly" THEN "text"
                   ELSE IF strategy.updateInstagramPosts THEN "fetch1" ELSE "top"]
    /\ UNCHANGED notStrategy

\* fetchAndStoreInstagramPosts: one call of the social API, a findOne per
\* listed post and a create per new one; an API error is rethrown.  fetch1
\* is the call in generateContentFromProfile, fetch2 the one at the head of
\* generateContentBasedOnProfileAndInstagram, both under the same flag.
FetchAndStore ==
    /\ strategy.pc \in {"fetch1", "fetch2"}
    /\ \/ \E n \in 0..MaxListing, new \in 0..MaxListing :
            /\ new <= n
            /\ strategy' = [strategy EXCEPT !.apiCalls = @ + 1, !.cacheReads = @ + n,
                                            !.cacheWrites = @ + new,
                                            !.pc = IF strategy.pc = "fetch1" THEN "fetch2" ELSE "top"]
       \/ strategy' = [strategy EXCEPT !.apiCalls = @ + 1, !.pc = "failed"]
    /\ UNCHANGED notStrategy

\* InstagramPost.find({ userId }).sort().limit(5)
TopPosts ==
    /\ strategy.pc = "top"
    /\ strategy' = [strategy EXCEPT !.cacheReads = @ + 1, !.pc = "text"]
    /\ UNCHANGED notStrategy

\* openai.chat.completions.create and what follows it.
TextCall ==
    /\ strategy.pc = "text"
    /\ \E out \in {"done", "failed"} : strategy' = [strategy EXCEPT !.pc = out]
    /\ UNCHANGED notStrategy

InitStrategy ==
    /\ CoreIdle /\ FilesIdle /\ ValidationIdle /\ CacheIdle /\ DigestIdle /\ ParserIdle /\ ImagesIdle /\ BackoffIdle
    /\ \E u \in {"undefined", "u1"}, t \in {"undefined", "token"}, c \in 1..MaxItems, upd \in BOOLEAN :
         strategy = [userId |-> u, accessToken |-> t, count |-> c, updateInstagramPosts |-> upd,
                     pc |-> "entry", chosen |-> "none",
                     apiCalls |-> 0, cacheReads |-> 0, cacheWrites |-> 0]

NextStrategy == SelectStrategy \/ FetchAndStore \/ TopPosts \/ TextCall

SpecStrategy == InitStrategy /\ [][NextStrategy]_vars

(* ------------------------------- C25 ----------------------------------- *)

\* C25: the Instagram strategy is selected exactly when a userId and an
\* access token are both supplied; under the profile-only strategy the
\* social API is never called and the post cache neither read nor written,
\* whatever updateInstagramPosts is.
C25_StrategySelection ==
    strategy.chosen # "none" =>
        /\ (strategy.chosen = "profileAndInstagram") =
               (strategy.userId # "undefined" /\ strategy.accessToken # "undefined")
        /\ (strategy.chosen = "profileOnly") =
               ~(strategy.userId # "undefined" /\ strategy.accessToken # "undefined")
        /\ strategy.chosen = "profileOnly" =>
               strategy.apiCalls = 0 /\ strategy.cacheReads = 0 /\ strategy.cacheWrites = 0

\* A userId without a token and updateInstagramPosts set: the profile-only
\* strategy ran to its end without touching the API or the cache.
C25_Witness ==
    /\ strategy.pc = "done"
    /\ strategy.userId = "u1"
    /\ strategy.accessToken = "undefined"
    /\ strategy.updateInstagramPosts
    /\ strategy.chosen = "profileOnly"
    /\ strategy.apiCalls = 0

(* ------------------------------- C30 ----------------------------------- *)

\* C30: when an Instagram regeneration with post refresh reaches its text
\* call, the invocation has fetched the posts from the social API exactly
\* once.
C30_FetchOncePerInvocation ==
    (strategy.pc = "text" /\ strategy.chosen = "profileAndInstagram" /\ strategy.updateInstagramPosts) =>
        strategy.apiCalls = 1

(* ------------------------------- C26 ----------------------------------- *)

\* C26: a step of the post refresh leaves every cached post as it is, adds
\* at most one, and leaves the suggestions alone.
C26_CacheAppendOnly ==
    [][/\ posts \subseteq posts'
       /\ Cardinality(posts') <= Cardinality(posts) + 1
       /\ store' = store]_vars

\* Two refreshes have run to their end, the second over a listing of two
\* posts, and the cache holds two posts.
C26_Witness ==
    /\ nfetch = MaxFetches
    /\ \A f \in Procs : fetchers[f].pc = "done"
    /\ \E f \in Procs : Len(fetchers[f].listing) = 2
    /\ Cardinality(posts) = 2
    /\ store = {}

====
